---- MODULE Spec2Model ----
(***************************************************************************)
(* Matching and team-formation engine of the Betterment bot.               *)
(*                                                                         *)
(*   Spec      one run of TeamFormationService.form_teams_hierarchical     *)
(*   SpecBatch concurrent calls of TeamFormationService.batch_create_teams *)
(*   SpecLoad  concurrent calls of SimilarityCalculator.compare            *)
(*                                                                         *)
(* Scores are exact fractions [n, d] (d > 0) instead of floats.  UTC       *)
(* offsets are in minutes.  An Optional value is a sequence of length at   *)
(* most one: <<>> is None and <<x>> is the value x.                        *)
(***************************************************************************)
EXTENDS Integers, Sequences, FiniteSets, TLC

\* ------------------------------------------------------------------ bounds
MaxPool == 3        \* profiles handed to one formation run
MaxCap == 2         \* largest configured max_team_size
MaxSeeds == 2       \* leaders of a pool that needs no trimming
MaxJoiners == 2     \* non-leaders of a pool that needs no trimming
MaxSize == 3        \* largest max_team_size for a pool that needs no trimming
MaxSem == 1         \* semantic compatibility levels 0..MaxSem
MaxProposed == 2    \* proposed teams handed to one batch_create_teams call
NumCallers == 2     \* coroutines calling compare(), and instances
MaxCalls == 2       \* compare() calls made by one coroutine
MaxTeams == 2       \* existing teams handed to find_best_teams_for_member
MaxRepeats == 2     \* calls of one function on the same arguments
MaxHours == 11      \* UTC offsets from -MaxHours to +MaxHours hours
MaxItems == 1       \* goals, and habits, of one profile
MaxKeywords == 2    \* keywords listed under one sub-category
MaxCategories == 2  \* categories in one set handed to _calculate_categorical_score
MaxCells == 6       \* cells of one similarity matrix
NumFlows == 2       \* manual assignments under way at once, each for its own member

\* --------------------------------------------------------- config.py values
MIN_CATEGORY_SCORE_THRESHOLD == 10     \* percent (0.1)
MIN_TIMEZONE_SCORE_THRESHOLD == 55     \* percent (0.55)

VARIABLES
    \* form_teams_hierarchical
    unassigned_leaders, unassigned_members, max_team_size, pc, all_members,
    timezone_clusters, proposed_teams, category_orphans, final_teams,
    semantic_orphans, team_idx, all_orphans, orphan_idx, still_unassigned,
    result, error, trim, placement,
    \* batch_create_teams and the persistence it writes
    db_teams, db_unregistered, bpc, proposals, batch_i,
    new_team_number, created_count, failed_teams, attempts, removed_upto,
    \* the manual assignment flows: UnregisteredMemberDropdown.callback, then
    \* TeamRecommendationDropdown.callback with assign_member_to_team
    config_max_team_size, apc, recommended, selected_team_name, team_members,
    assign_returns,
    \* SimilarityCalculator
    model_cache, model_load_lock, self_model, instance_of, lpc, constructs,
    outcomes,
    \* one function under call: its name with its arguments, and what each
    \* successive call returned
    call, returns,
    \* the order in which this process iterates a set of strings (fixed by
    \* its hash seed): one order for keywords, one for category strings
    set_order

formVars == <<unassigned_leaders, unassigned_members, max_team_size, pc,
              all_members, timezone_clusters, proposed_teams,
              category_orphans, final_teams, semantic_orphans, team_idx,
              all_orphans, orphan_idx, still_unassigned, result, error, trim,
              placement>>
batchVars == <<db_teams, db_unregistered, bpc, proposals,
               batch_i, new_team_number, created_count, failed_teams,
               attempts, removed_upto>>
batchLocals == <<bpc, proposals, batch_i, new_team_number, created_count,
                 failed_teams, attempts, removed_upto>>
assignVars == <<config_max_team_size, apc, recommended, selected_team_name,
                team_members, assign_returns>>
loadVars == <<model_cache, model_load_lock, self_model, instance_of, lpc,
              constructs, outcomes>>
callVars == <<call, returns, set_order>>
vars == <<formVars, batchVars, assignVars, loadVars, callVars>>

\* ----------------------------------------------------------------- helpers
Min(a, b) == IF a <= b THEN a ELSE b
Max(a, b) == IF a >= b THEN a ELSE b
Abs(a) == IF a >= 0 THEN a ELSE -a
Range(s) == {s[i] : i \in 1..Len(s)}
Count(seq, x) == Cardinality({i \in 1..Len(seq) : seq[i] = x})
\* the elements of s in order of first occurrence
FirstOccurrences(s) ==
    LET firsts == SelectSeq([i \in 1..Len(s) |-> i],
                      LAMBDA i : \A j \in 1..(i - 1) : s[j] # s[i])
    IN  [k \in 1..Len(firsts) |-> s[firsts[k]]]
\* the orders in which a set can be enumerated
Orders(S) == {p \in [1..Cardinality(S) -> S] : \A x \in S : \E i \in DOMAIN p : p[i] = x}

RECURSIVE Flatten(_)
Flatten(ss) == IF ss = <<>> THEN <<>> ELSE Head(ss) \o Flatten(Tail(ss))

\* Python slices s[:k] and s[k:], negative k counting from the end
PySliceTo(s, k) ==
    LET e == IF k < 0 THEN Max(0, Len(s) + k) ELSE Min(k, Len(s))
    IN  SubSeq(s, 1, e)
PySliceFrom(s, k) ==
    LET b == IF k < 0 THEN Max(0, Len(s) + k) ELSE Min(k, Len(s))
    IN  SubSeq(s, b + 1, Len(s))

\* Python max(seq, key=...): the first element no other element exceeds
FirstMax(s, GT(_, _)) ==
    s[CHOOSE i \in 1..Len(s) :
        /\ \A j \in 1..Len(s) : ~GT(s[j], s[i])
        /\ \A j \in 1..(i - 1) : GT(s[i], s[j])]

\* Python sorted(seq, key=..., reverse=True): stable, descending
SortedDesc(s, key(_)) ==
    LET pos(i) == Cardinality({j \in 1..Len(s) : key(s[j]) > key(s[i])})
                  + Cardinality({j \in 1..(i - 1) : key(s[j]) = key(s[i])}) + 1
    IN  [p \in 1..Len(s) |-> s[CHOOSE i \in 1..Len(s) : pos(i) = p]]

\* Python list.sort(key=..., reverse=True): stable, descending
SortedDescBy(s, GT(_, _)) ==
    LET pos(i) == Cardinality({j \in 1..Len(s) : GT(s[j], s[i])})
                  + Cardinality({j \in 1..(i - 1) :
                                     ~GT(s[j], s[i]) /\ ~GT(s[i], s[j])}) + 1
    IN  [p \in 1..Len(s) |-> s[CHOOSE i \in 1..Len(s) : pos(i) = p]]

RECURSIVE SumSeq(_)
SumSeq(s) == IF s = <<>> THEN 0 ELSE Head(s) + SumSeq(Tail(s))

\* exact fractions
Frac(n, d) == [n |-> n, d |-> d]
FracGT(a, b) == a.n * b.d > b.n * a.d
FracEQ(a, b) == a.n * b.d = b.n * a.d
FracAdd(a, b) == Frac(a.n * b.d + b.n * a.d, a.d * b.d)
RECURSIVE FracSum(_)
FracSum(fs) == IF fs = <<>> THEN Frac(0, 1) ELSE FracAdd(Head(fs), FracSum(Tail(fs)))
\* np.mean of a non-empty list of scores
FracMean(fs) == LET s == FracSum(fs) IN Frac(s.n, s.d * Len(fs))
\* f"{score:.2f}" as the number of hundredths, ties to even (the decimal
\* rendering of the float nearest to the fraction; away from ties they agree)
Format2f(a) ==
    LET q == (a.n * 100) \div a.d
        r == (a.n * 100) % a.d
    IN  IF 2 * r > a.d \/ (2 * r = a.d /\ q % 2 = 1) THEN q + 1 ELSE q
\* score >= percent / 100
AtLeastPercent(a, percent) == a.n * 100 >= percent * a.d

\* ------------------------------------------------- models/team.py
is_leader(m) == m.role_title = "Team Leader"
get_leaders(team) == SelectSeq(team.members, is_leader)
get_leader_count(team) == Len(get_leaders(team))
UserIds(ms) == {ms[i].user_id : i \in 1..Len(ms)}

\* ------------------------------------------------- utils/timezone_utils.py
\* offsets in minutes
TIMEZONE_MAP ==
    [EST |-> -300, EDT |-> -240, CST |-> -360, CDT |-> -300, MST |-> -420,
     MDT |-> -360, PST |-> -480, PDT |-> -420, AKST |-> -540, AKDT |-> -480,
     HST |-> -600, GMT |-> 0, UTC |-> 0, CET |-> 60, CEST |-> 120, EET |-> 120,
     EEST |-> 180, IST |-> 330, JST |-> 540, AEST |-> 600, AEDT |-> 660]

parse_to_utc_offset(tz_string) ==
    IF tz_string \in DOMAIN TIMEZONE_MAP THEN <<TIMEZONE_MAP[tz_string]>> ELSE <<>>

\* calculate_compatibility without the max(0.0, ...) of line 37
calculate_compatibility_unclamped(tz_offset1, tz_offset2) ==
    IF tz_offset1 = <<>> \/ tz_offset2 = <<>> THEN Frac(0, 1)
    ELSE LET minute_diff == Abs(tz_offset1[1] - tz_offset2[1])
         IN  Frac(540 - minute_diff, 540)

calculate_compatibility(tz_offset1, tz_offset2) ==
    IF tz_offset1 = <<>> \/ tz_offset2 = <<>> THEN Frac(0, 1)
    ELSE LET minute_diff == Abs(tz_offset1[1] - tz_offset2[1])
         IN  Frac(Max(0, 540 - minute_diff), 540)

\* ------------------------------------------------- services/category_matcher.py
\* The keyword table (domain -> sub-category -> keyword list), in dict order.
\* A category "domain:sub" is the pair <<domain, sub>>.
base_domain_keywords ==
    <<[domain |-> "tech", sub |-> "ai", keywords |-> <<"ai", "code">>],
      [domain |-> "tech", sub |-> "web", keywords |-> <<"web", "code">>],
      [domain |-> "health", sub |-> "fitness", keywords |-> <<"gym">>]>>

Categories == {<<e.domain, e.sub>> : e \in Range(base_domain_keywords)}
Keywords == UNION {Range(e.keywords) : e \in Range(base_domain_keywords)}

\* lines 31-42
keyword_map(keyword) ==
    {<<e.domain, e.sub>> :
        e \in {x \in Range(base_domain_keywords) : keyword \in Range(x.keywords)}}
keyword_category_counts(keyword) ==
    SumSeq([i \in 1..Len(base_domain_keywords) |->
               Count(base_domain_keywords[i].keywords, keyword)])
specificity_scores(keyword) == Frac(1, keyword_category_counts(keyword))

\* lines 23-42 on any table: str.lower on the keyword strings of the tables
\* below, and the two dicts _process_keywords leaves in the matcher
lower(keyword) == IF keyword = "AI" THEN "ai" ELSE keyword
process_keywords(table) ==
    LET lowered(e) == [i \in 1..Len(e.keywords) |-> lower(e.keywords[i])]
        keys == UNION {Range(lowered(e)) : e \in Range(table)}
        counts == [k \in keys |->
                      SumSeq([i \in 1..Len(table) |-> Count(lowered(table[i]), k)])]
    IN  [keyword_map |->
             [k \in keys |->
                 {<<e.domain, e.sub>> :
                     e \in {x \in Range(table) : k \in Range(lowered(x))}}],
         specificity_scores |-> [k \in keys |-> Frac(1, counts[k])]]

\* lines 44-74; a text is the set of words it contains, so that a keyword is
\* found as a whole word exactly when it is in the set, and the empty string
\* is the empty set.  The result is the dict as (category, score) items in
\* insertion order.
get_scored_categories(text) ==
    LET matched_keywords == SelectSeq(set_order.keywords, LAMBDA k : k \in text)
        inserted == FirstOccurrences(Flatten(
            [i \in 1..Len(matched_keywords) |->
                SelectSeq(set_order.categories,
                    LAMBDA c : c \in keyword_map(matched_keywords[i]))]))
        total(c) == FracSum(
            [i \in 1..Len(matched_keywords) |->
                IF c \in keyword_map(matched_keywords[i])
                THEN specificity_scores(matched_keywords[i]) ELSE Frac(0, 1)])
    IN  [i \in 1..Len(inserted) |->
            [category |-> inserted[i], score |-> total(inserted[i])]]

\* lines 76-94
get_top_categories(text, n) ==
    LET scored_categories == get_scored_categories(text)
        sorted_cats == SortedDescBy(scored_categories,
                           LAMBDA a, b : FracGT(a.score, b.score))
    IN  IF scored_categories = <<>> THEN <<>> ELSE PySliceTo(sorted_cats, n)

\* ------------------------------------------------- services/scoring_engine.py
\* profile_data.category is the structured field flattened to its set of
\* categories ({}: no dict, an empty dict, or domains without sub-categories)
get_member_categories(profile_data) ==
    IF profile_data.category # {} THEN profile_data.category
    ELSE LET items == profile_data.goals \o profile_data.habits
         IN  UNION {{t.category : t \in Range(get_top_categories(items[i], 2))} :
                        i \in 1..Len(items)}

\* calculate_categorical_score dividing by the sizes of the first set, without
\* the min of lines 50-51
calculate_categorical_score_by_first(categories1, categories2) ==
    IF categories1 = {} \/ categories2 = {} THEN Frac(0, 1)
    ELSE LET domains1 == {cat[1] : cat \in categories1}
             domains2 == {cat[1] : cat \in categories2}
             sub_n == Cardinality(categories1 \cap categories2)
             sub_d == Cardinality(categories1)
             dom_n == Cardinality(domains1 \cap domains2)
             dom_d == Cardinality(domains1)
         IN  Frac(6 * sub_n * dom_d + 4 * dom_n * sub_d, 10 * sub_d * dom_d)

\* lines 43-54
calculate_categorical_score(categories1, categories2) ==
    IF categories1 = {} \/ categories2 = {} THEN Frac(0, 1)
    ELSE LET domains1 == {cat[1] : cat \in categories1}
             domains2 == {cat[1] : cat \in categories2}
             sub_n == Cardinality(categories1 \cap categories2)
             sub_d == Min(Cardinality(categories1), Cardinality(categories2))
             dom_n == Cardinality(domains1 \cap domains2)
             dom_d == Min(Cardinality(domains1), Cardinality(domains2))
         IN  Frac(6 * sub_n * dom_d + 4 * dom_n * sub_d, 10 * sub_d * dom_d)

\* config.py lines 115-120, in hundredths
PERFECT_MATCH_THRESHOLD == 95
PERFECT_MATCH_BONUS == 25
MID_MATCH_THRESHOLD_LOW == 40
MID_MATCH_THRESHOLD_HIGH == 60
MID_MATCH_BONUS_INCREMENT == 1
MID_MATCH_BONUS_CAP == 5

\* lines 56-70; a matrix is the sequence of its cells, each a cosine
\* similarity in hundredths (np.mean and np.sum run over all cells, whatever
\* the shape), and the result is a fraction of 1
apply_similarity_bonuses(matrix) ==
    IF Len(matrix) = 0 THEN Frac(0, 1)
    ELSE LET size == Len(matrix)
             perfect_matches == Cardinality({i \in 1..size :
                                    matrix[i] >= PERFECT_MATCH_THRESHOLD})
             mid_matches == Cardinality({i \in 1..size :
                                /\ matrix[i] >= MID_MATCH_THRESHOLD_LOW
                                /\ matrix[i] < MID_MATCH_THRESHOLD_HIGH})
             bonus == perfect_matches * PERFECT_MATCH_BONUS
                      + Min(MID_MATCH_BONUS_CAP, mid_matches * MID_MATCH_BONUS_INCREMENT)
             total == Frac(SumSeq(matrix) + bonus * size, 100 * size)
         IN  IF FracGT(total, Frac(1, 1)) THEN Frac(1, 1) ELSE total

calculate_member_team_fit(member_profile, team_leaders) ==
    IF team_leaders = <<>> THEN [tz_score |-> Frac(0, 1), cat_score |-> Frac(0, 1)]
    ELSE LET member_tz_offset == parse_to_utc_offset(member_profile.timezone)
             member_cats == get_member_categories(member_profile)
             tz_scores == [i \in 1..Len(team_leaders) |->
                 calculate_compatibility(member_tz_offset,
                     parse_to_utc_offset(team_leaders[i].profile_data.timezone))]
             cat_scores == [i \in 1..Len(team_leaders) |->
                 calculate_categorical_score(member_cats,
                     get_member_categories(team_leaders[i].profile_data))]
         IN  [tz_score |-> FracMean(tz_scores), cat_score |-> FracMean(cat_scores)]

\* ------------------------------------------------- inputs of a formation run
TzStrings == {"", "UTC", "EST"}
CategorySets == {{}, {<<"tech", "ai">>}}

\* profile_data that is a mapping, and profile_data that is not
GoodData == [mapping : {TRUE}, timezone : TzStrings, category : CategorySets,
             goals : {<<>>}, habits : {<<>>}]
BadData == [mapping |-> FALSE, timezone |-> "", category |-> {},
            goals |-> <<>>, habits |-> <<>>]
PlainData == [mapping |-> TRUE, timezone |-> "", category |-> {},
              goals |-> <<>>, habits |-> <<>>]

\* the profile dicts stored under one list of the unregistered document:
\* save_unregistered_member files a profile under "leaders" exactly when its
\* role_title is "Team Leader"
ProfileShapes(role) ==
    {[has_user_id |-> TRUE, role_title |-> role, profile_data |-> d] : d \in GoodData}
    \cup {[has_user_id |-> FALSE, role_title |-> role, profile_data |-> PlainData],
          [has_user_id |-> TRUE, role_title |-> role, profile_data |-> BadData]}

WithUserId(shape, uid) ==
    [has_user_id |-> shape.has_user_id, user_id |-> uid,
     role_title |-> shape.role_title, profile_data |-> shape.profile_data]

TeamMember(profile_dict) ==
    [user_id |-> profile_dict.user_id, role_title |-> profile_dict.role_title,
     profile_data |-> profile_dict.profile_data]

\* ------------------------------------------------- form_teams_hierarchical
\* the locals before the first statement
FormStart ==
    /\ pc = "build"
    /\ all_members = <<>>
    /\ timezone_clusters = <<>>
    /\ proposed_teams = <<>>
    /\ category_orphans = <<>>
    /\ final_teams = <<>>
    /\ semantic_orphans = <<>>
    /\ team_idx = 1
    /\ all_orphans = <<>>
    /\ orphan_idx = 1
    /\ still_unassigned = <<>>
    /\ result = <<>>
    /\ error = "none"
    /\ trim = <<>>
    /\ placement = <<>>

\* the state at the call: the two lists as TeamFormationModal.on_submit builds
\* them from the unregistered document, whose keys are the user_ids
FormInitOver(leader_shapes, member_shapes) ==
    /\ \E nl \in 0..MaxPool : \E nm \in 0..(MaxPool - nl) :
         \E ls \in [1..nl -> leader_shapes] :
           \E ms \in [1..nm -> member_shapes] :
             /\ unassigned_leaders = [i \in 1..nl |-> WithUserId(ls[i], i)]
             /\ unassigned_members = [i \in 1..nm |-> WithUserId(ms[i], nl + i)]
    /\ max_team_size \in 1..MaxCap
    /\ FormStart

\* lines 30-49: records without user_id are skipped
BuildMembers ==
    /\ pc = "build"
    /\ all_members' = LET pool == unassigned_leaders \o unassigned_members
                          kept == SelectSeq(pool, LAMBDA p : p.has_user_id)
                      IN  [i \in 1..Len(kept) |-> TeamMember(kept[i])]
    /\ pc' = "phase1"
    /\ UNCHANGED <<unassigned_leaders, unassigned_members, max_team_size,
                   timezone_clusters, proposed_teams, category_orphans,
                   final_teams, semantic_orphans, team_idx, all_orphans,
                   orphan_idx, still_unassigned, result, error, trim,
                   placement>>

utc_offset(member) ==
    IF member.profile_data.timezone # ""
    THEN parse_to_utc_offset(member.profile_data.timezone) ELSE <<>>

\* clusters in order of first appearance of their offset (dict insertion order)
cluster_by_timezone(members) ==
    LET firsts == SelectSeq([i \in 1..Len(members) |-> i],
                      LAMBDA i : \A j \in 1..(i - 1) :
                          utc_offset(members[j]) # utc_offset(members[i]))
    IN  [k \in 1..Len(firsts) |->
            [offset |-> utc_offset(members[firsts[k]]),
             members |-> SelectSeq(members,
                 LAMBDA m : utc_offset(m) = utc_offset(members[firsts[k]]))]]

\* lines 81-90, every profile_data is a mapping
ClusterByTimezone ==
    /\ pc = "phase1"
    /\ \A i \in 1..Len(all_members) : all_members[i].profile_data.mapping
    /\ timezone_clusters' = cluster_by_timezone(all_members)
    /\ pc' = "phase2"
    /\ UNCHANGED <<unassigned_leaders, unassigned_members, max_team_size,
                   all_members, proposed_teams, category_orphans, final_teams,
                   semantic_orphans, team_idx, all_orphans, orphan_idx,
                   still_unassigned, result, error, trim,
                   placement>>

\* line 86: member.profile_data.get on a profile_data that is not a mapping
\* raises AttributeError, which nothing in the run catches
ClusterByTimezoneRaises ==
    /\ pc = "phase1"
    /\ \E i \in 1..Len(all_members) : ~all_members[i].profile_data.mapping
    /\ pc' = "raised"
    /\ error' = "profile_data"
    /\ UNCHANGED <<unassigned_leaders, unassigned_members, max_team_size,
                   all_members, timezone_clusters, proposed_teams,
                   category_orphans, final_teams, semantic_orphans, team_idx,
                   all_orphans, orphan_idx, still_unassigned, result, trim,
                   placement>>

\* cluster_group forming a team only for a leader that some member joined
cluster_group_dropping_singletons(members) ==
    LET leaders == SelectSeq(members, is_leader)
        non_leaders == SelectSeq(members, LAMBDA m : ~is_leader(m))
        score(m, l) == calculate_categorical_score(
                           get_member_categories(m.profile_data),
                           get_member_categories(l.profile_data))
        best_leader(m) == FirstMax(leaders,
                              LAMBDA a, b : FracGT(score(m, a), score(m, b)))
        joins(m) == AtLeastPercent(score(m, best_leader(m)),
                                   MIN_CATEGORY_SCORE_THRESHOLD)
        teams == [i \in 1..Len(leaders) |->
                  [members |-> <<leaders[i]>> \o SelectSeq(non_leaders,
                      LAMBDA m : joins(m) /\ best_leader(m) = leaders[i])]]
    IN  IF leaders = <<>> THEN [teams |-> <<>>, orphans |-> members]
        ELSE [teams |-> SelectSeq(teams, LAMBDA t : Len(t.members) > 1),
              orphans |-> SelectSeq(non_leaders, LAMBDA m : ~joins(m))]

\* cluster_group without the threshold test of line 117
cluster_group_without_threshold(members) ==
    LET leaders == SelectSeq(members, is_leader)
        non_leaders == SelectSeq(members, LAMBDA m : ~is_leader(m))
        score(m, l) == calculate_categorical_score(
                           get_member_categories(m.profile_data),
                           get_member_categories(l.profile_data))
        best_leader(m) == FirstMax(leaders,
                              LAMBDA a, b : FracGT(score(m, a), score(m, b)))
    IN  IF leaders = <<>> THEN [teams |-> <<>>, orphans |-> members]
        ELSE [teams |-> [i \in 1..Len(leaders) |->
                  [members |-> <<leaders[i]>> \o SelectSeq(non_leaders,
                      LAMBDA m : best_leader(m) = leaders[i])]],
              orphans |-> <<>>]

\* cluster_group forming one team for all the leaders of the group
cluster_group_merging_leaders(members) ==
    LET leaders == SelectSeq(members, is_leader)
        non_leaders == SelectSeq(members, LAMBDA m : ~is_leader(m))
        score(m, l) == calculate_categorical_score(
                           get_member_categories(m.profile_data),
                           get_member_categories(l.profile_data))
        best_leader(m) == FirstMax(leaders,
                              LAMBDA a, b : FracGT(score(m, a), score(m, b)))
        joins(m) == AtLeastPercent(score(m, best_leader(m)),
                                   MIN_CATEGORY_SCORE_THRESHOLD)
    IN  IF leaders = <<>> THEN [teams |-> <<>>, orphans |-> members]
        ELSE [teams |-> <<[members |-> leaders \o SelectSeq(non_leaders, joins)]>>,
              orphans |-> SelectSeq(non_leaders, LAMBDA m : ~joins(m))]

\* cluster_group sending a leader that nobody joined to the orphans
cluster_group_orphaning_lone_leaders(members) ==
    LET leaders == SelectSeq(members, is_leader)
        non_leaders == SelectSeq(members, LAMBDA m : ~is_leader(m))
        score(m, l) == calculate_categorical_score(
                           get_member_categories(m.profile_data),
                           get_member_categories(l.profile_data))
        best_leader(m) == FirstMax(leaders,
                              LAMBDA a, b : FracGT(score(m, a), score(m, b)))
        joins(m) == AtLeastPercent(score(m, best_leader(m)),
                                   MIN_CATEGORY_SCORE_THRESHOLD)
        teams == [i \in 1..Len(leaders) |->
                  [members |-> <<leaders[i]>> \o SelectSeq(non_leaders,
                      LAMBDA m : joins(m) /\ best_leader(m) = leaders[i])]]
        lone == SelectSeq(teams, LAMBDA t : Len(t.members) = 1)
    IN  IF leaders = <<>> THEN [teams |-> <<>>, orphans |-> members]
        ELSE [teams |-> SelectSeq(teams, LAMBDA t : Len(t.members) > 1),
              orphans |-> [i \in 1..Len(lone) |-> lone[i].members[1]]
                          \o SelectSeq(non_leaders, LAMBDA m : ~joins(m))]

\* lines 97-128 for one timezone group
cluster_group(members) ==
    LET leaders == SelectSeq(members, is_leader)
        non_leaders == SelectSeq(members, LAMBDA m : ~is_leader(m))
        score(m, l) == calculate_categorical_score(
                           get_member_categories(m.profile_data),
                           get_member_categories(l.profile_data))
        best_leader(m) == FirstMax(leaders,
                              LAMBDA a, b : FracGT(score(m, a), score(m, b)))
        joins(m) == AtLeastPercent(score(m, best_leader(m)),
                                   MIN_CATEGORY_SCORE_THRESHOLD)
    IN  IF leaders = <<>> THEN [teams |-> <<>>, orphans |-> members]
        ELSE [teams |-> [i \in 1..Len(leaders) |->
                  [members |-> <<leaders[i]>> \o SelectSeq(non_leaders,
                      LAMBDA m : joins(m) /\ best_leader(m) = leaders[i])]],
              orphans |-> SelectSeq(non_leaders, LAMBDA m : ~joins(m))]

\* lines 92-129
ClusterByCategory ==
    /\ pc = "phase2"
    /\ LET groups == [k \in 1..Len(timezone_clusters) |->
                         cluster_group(timezone_clusters[k].members)]
       IN  /\ proposed_teams' = Flatten([k \in 1..Len(groups) |-> groups[k].teams])
           /\ category_orphans' = Flatten([k \in 1..Len(groups) |-> groups[k].orphans])
    /\ pc' = "phase3"
    /\ team_idx' = 1
    /\ UNCHANGED <<unassigned_leaders, unassigned_members, max_team_size,
                   all_members, timezone_clusters, final_teams,
                   semantic_orphans, all_orphans, orphan_idx,
                   still_unassigned, result, error, trim,
                   placement>>

\* lines 64-65: a team within capacity is passed through
KeepTeam ==
    /\ pc = "phase3"
    /\ team_idx <= Len(proposed_teams)
    /\ Len(proposed_teams[team_idx].members) <= max_team_size
    /\ final_teams' = Append(final_teams, proposed_teams[team_idx])
    /\ team_idx' = team_idx + 1
    /\ trim' = <<>>
    /\ UNCHANGED placement
    /\ UNCHANGED <<unassigned_leaders, unassigned_members, max_team_size, pc,
                   all_members, timezone_clusters, proposed_teams,
                   category_orphans, semantic_orphans, all_orphans,
                   orphan_idx, still_unassigned, result, error>>

\* optimize_oversized_team keeping one non-leader fewer than there are slots
optimize_evicting_one_more(team, scores, cap) ==
    LET members == team.members
        size == Len(members)
        avg_scores == [uid \in UserIds(members) |->
            LET i == CHOOSE k \in 1..size : members[k].user_id = uid
            IN  SumSeq([j \in 1..size |-> scores[i][j]])]
        leaders == SelectSeq(members, is_leader)
        non_leaders == SortedDesc(SelectSeq(members, LAMBDA m : ~is_leader(m)),
                                  LAMBDA m : avg_scores[m.user_id])
        slots_for_members == Max(0, cap - Len(leaders) - 1)
    IN  [kept_members |-> leaders \o PySliceTo(non_leaders, slots_for_members),
         orphans |-> PySliceFrom(non_leaders, slots_for_members),
         avg_scores |-> avg_scores]

\* optimize_oversized_team with the orphans sliced one place too far
optimize_dropping_one(team, scores, cap) ==
    LET members == team.members
        size == Len(members)
        avg_scores == [uid \in UserIds(members) |->
            LET i == CHOOSE k \in 1..size : members[k].user_id = uid
            IN  SumSeq([j \in 1..size |-> scores[i][j]])]
        leaders == SelectSeq(members, is_leader)
        non_leaders == SortedDesc(SelectSeq(members, LAMBDA m : ~is_leader(m)),
                                  LAMBDA m : avg_scores[m.user_id])
        slots_for_members == cap - Len(leaders)
    IN  [kept_members |-> leaders \o PySliceTo(non_leaders, slots_for_members),
         orphans |-> PySliceFrom(non_leaders, slots_for_members + 1),
         avg_scores |-> avg_scores]

\* optimize_oversized_team ranking every member, leaders included
optimize_ranking_leaders(team, scores, cap) ==
    LET members == team.members
        size == Len(members)
        avg_scores == [uid \in UserIds(members) |->
            LET i == CHOOSE k \in 1..size : members[k].user_id = uid
            IN  SumSeq([j \in 1..size |-> scores[i][j]])]
        ranked == SortedDesc(members, LAMBDA m : avg_scores[m.user_id])
    IN  [kept_members |-> PySliceTo(ranked, cap),
         orphans |-> PySliceFrom(ranked, cap),
         avg_scores |-> avg_scores]

\* optimize_oversized_team sorting without reverse=True
optimize_ascending(team, scores, cap) ==
    LET members == team.members
        size == Len(members)
        avg_scores == [uid \in UserIds(members) |->
            LET i == CHOOSE k \in 1..size : members[k].user_id = uid
            IN  SumSeq([j \in 1..size |-> scores[i][j]])]
        leaders == SelectSeq(members, is_leader)
        non_leaders == SortedDesc(SelectSeq(members, LAMBDA m : ~is_leader(m)),
                                  LAMBDA m : -avg_scores[m.user_id])
        slots_for_members == cap - Len(leaders)
    IN  [kept_members |-> leaders \o PySliceTo(non_leaders, slots_for_members),
         orphans |-> PySliceFrom(non_leaders, slots_for_members),
         avg_scores |-> avg_scores]

\* lines 134-153; scores is the symmetric matrix with zero diagonal that the
\* pairwise calculate_semantic_compatibility calls filled.  avg_scores holds
\* size * np.mean(scores[i]), the row sums, which order the same way.
optimize_oversized_team(team, scores, cap) ==
    LET members == team.members
        size == Len(members)
        avg_scores == [uid \in UserIds(members) |->
            LET i == CHOOSE k \in 1..size : members[k].user_id = uid
            IN  SumSeq([j \in 1..size |-> scores[i][j]])]
        leaders == SelectSeq(members, is_leader)
        non_leaders == SortedDesc(SelectSeq(members, LAMBDA m : ~is_leader(m)),
                                  LAMBDA m : avg_scores[m.user_id])
        slots_for_members == cap - Len(leaders)
    IN  [kept_members |-> leaders \o PySliceTo(non_leaders, slots_for_members),
         orphans |-> PySliceFrom(non_leaders, slots_for_members),
         avg_scores |-> avg_scores]

SymmetricScores(size) ==
    {[i \in 1..size |-> [j \in 1..size |->
          IF i = j THEN 0 ELSE sc[<<Min(i, j), Max(i, j)>>]]] :
      sc \in [{<<i, j>> \in (1..size) \X (1..size) : i < j} -> 0..MaxSem]}

\* lines 60-63
OptimizeOversizedTeam ==
    /\ pc = "phase3"
    /\ team_idx <= Len(proposed_teams)
    /\ Len(proposed_teams[team_idx].members) > max_team_size
    /\ \E scores \in SymmetricScores(Len(proposed_teams[team_idx].members)) :
         LET r == optimize_oversized_team(proposed_teams[team_idx], scores,
                                          max_team_size)
         IN  /\ proposed_teams' = [proposed_teams EXCEPT
                                      ![team_idx].members = r.kept_members]
             /\ final_teams' = Append(final_teams, [members |-> r.kept_members])
             /\ semantic_orphans' = semantic_orphans \o r.orphans
             /\ trim' = <<[before |-> proposed_teams[team_idx].members,
                          kept_members |-> r.kept_members,
                          orphans |-> r.orphans,
                          avg_scores |-> r.avg_scores]>>
    /\ team_idx' = team_idx + 1
    /\ UNCHANGED <<unassigned_leaders, unassigned_members, max_team_size, pc,
                   all_members, timezone_clusters, category_orphans,
                   all_orphans, orphan_idx, still_unassigned, result, error,
                   placement>>

\* line 140: the similarity provider fails to initialise and compare raises
OptimizeRaises ==
    /\ pc = "phase3"
    /\ team_idx <= Len(proposed_teams)
    /\ Len(proposed_teams[team_idx].members) > max_team_size
    /\ pc' = "raised"
    /\ error' = "similarity"
    /\ trim' = <<>>
    /\ UNCHANGED placement
    /\ UNCHANGED <<unassigned_leaders, unassigned_members, max_team_size,
                   all_members, timezone_clusters, proposed_teams,
                   category_orphans, final_teams, semantic_orphans, team_idx,
                   all_orphans, orphan_idx, still_unassigned, result>>

\* lines 70-71
BeginReassign ==
    /\ pc = "phase3"
    /\ team_idx > Len(proposed_teams)
    /\ all_orphans' = category_orphans \o semantic_orphans
    /\ pc' = IF category_orphans \o semantic_orphans = <<>> THEN "return" ELSE "phase4"
    /\ orphan_idx' = 1
    /\ trim' = <<>>
    /\ UNCHANGED placement
    /\ UNCHANGED <<unassigned_leaders, unassigned_members, max_team_size,
                   all_members, timezone_clusters, proposed_teams,
                   category_orphans, final_teams, semantic_orphans, team_idx,
                   still_unassigned, result, error>>

\* candidate_teams with the capacity test of line 163 written as >
candidate_teams_off_by_one(orphan, teams, cap) ==
    LET open == SelectSeq([t \in 1..Len(teams) |-> t],
                    LAMBDA t : /\ ~(Len(teams[t].members) > cap)
                               /\ get_leaders(teams[t]) # <<>>)
    IN  [k \in 1..Len(open) |->
            LET fit_scores == calculate_member_team_fit(orphan.profile_data,
                                  get_leaders(teams[open[k]]))
            IN  [team |-> open[k], size |-> Len(teams[open[k]].members),
                 tz_score |-> fit_scores.tz_score,
                 cat_score |-> fit_scores.cat_score]]

\* candidate_teams passing over a team with one free place
candidate_teams_keeping_a_seat(orphan, teams, cap) ==
    LET open == SelectSeq([t \in 1..Len(teams) |-> t],
                    LAMBDA t : /\ ~(Len(teams[t].members) + 1 >= cap)
                               /\ get_leaders(teams[t]) # <<>>)
    IN  [k \in 1..Len(open) |->
            LET fit_scores == calculate_member_team_fit(orphan.profile_data,
                                  get_leaders(teams[open[k]]))
            IN  [team |-> open[k], size |-> Len(teams[open[k]].members),
                 tz_score |-> fit_scores.tz_score,
                 cat_score |-> fit_scores.cat_score]]

\* lines 161-170
candidate_teams(orphan, teams, cap) ==
    LET open == SelectSeq([t \in 1..Len(teams) |-> t],
                    LAMBDA t : /\ ~(Len(teams[t].members) >= cap)
                               /\ get_leaders(teams[t]) # <<>>)
    IN  [k \in 1..Len(open) |->
            LET fit_scores == calculate_member_team_fit(orphan.profile_data,
                                  get_leaders(teams[open[k]]))
            IN  [team |-> open[k], size |-> Len(teams[open[k]].members),
                 tz_score |-> fit_scores.tz_score,
                 cat_score |-> fit_scores.cat_score]]

\* key (cat_score, -size)
Tier1Greater(x, y) ==
    \/ FracGT(x.cat_score, y.cat_score)
    \/ FracEQ(x.cat_score, y.cat_score) /\ -x.size > -y.size
\* key (tz_score, cat_score, -size)
Tier2Greater(x, y) ==
    \/ FracGT(x.tz_score, y.tz_score)
    \/ FracEQ(x.tz_score, y.tz_score) /\ Tier1Greater(x, y)

\* best_team with the Tier 2 key of line 184 lacking tz_score
best_team_ignoring_timezone(candidates) ==
    LET primary_candidates == SelectSeq(candidates,
            LAMBDA c : AtLeastPercent(c.tz_score, MIN_TIMEZONE_SCORE_THRESHOLD))
    IN  IF primary_candidates # <<>>
        THEN FirstMax(primary_candidates, Tier1Greater).team
        ELSE FirstMax(candidates, Tier1Greater).team

\* best_team with the key of line 184 for every orphan, without Tier 1
best_team_timezone_first(candidates) ==
    FirstMax(candidates, Tier2Greater).team

\* lines 176-184
best_team(candidates) ==
    LET primary_candidates == SelectSeq(candidates,
            LAMBDA c : AtLeastPercent(c.tz_score, MIN_TIMEZONE_SCORE_THRESHOLD))
    IN  IF primary_candidates # <<>>
        THEN FirstMax(primary_candidates, Tier1Greater).team
        ELSE FirstMax(candidates, Tier2Greater).team

\* members[user_id] = member on an insertion-ordered dict
DictSet(members, member) ==
    IF member.user_id \in UserIds(members)
    THEN [i \in 1..Len(members) |->
             IF members[i].user_id = member.user_id THEN member ELSE members[i]]
    ELSE Append(members, member)

\* ReassignOrphan with every orphan meeting the teams as they were handed to
\* _reassign_orphans, without the members placed since
ReassignOrphanStale ==
    /\ pc = "phase4"
    /\ orphan_idx <= Len(all_orphans)
    /\ LET orphan == all_orphans[orphan_idx]
           handed == [t \in 1..Len(final_teams) |->
                         [final_teams[t] EXCEPT !.members =
                             SelectSeq(@, LAMBDA m : m \notin Range(all_orphans))]]
           candidates == candidate_teams(orphan, handed, max_team_size)
       IN  IF candidates = <<>>
           THEN /\ still_unassigned' = Append(still_unassigned, orphan)
                /\ placement' = <<[orphan |-> orphan, teams |-> final_teams,
                                   candidates |-> candidates, team |-> 0]>>
                /\ UNCHANGED <<final_teams, proposed_teams>>
           ELSE LET t == best_team(candidates)
                    grown == [final_teams EXCEPT
                                 ![t].members = DictSet(@, orphan)]
                IN  /\ final_teams' = grown
                    /\ proposed_teams' = grown
                    /\ placement' = <<[orphan |-> orphan, teams |-> final_teams,
                                       candidates |-> candidates, team |-> t]>>
                    /\ UNCHANGED still_unassigned
    /\ orphan_idx' = orphan_idx + 1
    /\ pc' = IF orphan_idx = Len(all_orphans) THEN "return" ELSE "phase4"
    /\ UNCHANGED <<unassigned_leaders, unassigned_members, max_team_size,
                   all_members, timezone_clusters, category_orphans,
                   semantic_orphans, team_idx, all_orphans, result, error, trim>>

\* lines 160-186 for one orphan; the teams are the objects of proposed_teams.
\* placement records the orphan just processed, the teams and candidates it
\* met, and the index of the team it was added to (0: left unassigned).
ReassignOrphan ==
    /\ pc = "phase4"
    /\ orphan_idx <= Len(all_orphans)
    /\ LET orphan == all_orphans[orphan_idx]
           candidates == candidate_teams(orphan, final_teams, max_team_size)
       IN  IF candidates = <<>>
           THEN /\ still_unassigned' = Append(still_unassigned, orphan)
                /\ placement' = <<[orphan |-> orphan, teams |-> final_teams,
                                   candidates |-> candidates, team |-> 0]>>
                /\ UNCHANGED <<final_teams, proposed_teams>>
           ELSE LET t == best_team(candidates)
                    grown == [final_teams EXCEPT
                                 ![t].members = DictSet(@, orphan)]
                IN  /\ final_teams' = grown
                    /\ proposed_teams' = grown
                    /\ placement' = <<[orphan |-> orphan, teams |-> final_teams,
                                       candidates |-> candidates, team |-> t]>>
                    /\ UNCHANGED still_unassigned
    /\ orphan_idx' = orphan_idx + 1
    /\ pc' = IF orphan_idx = Len(all_orphans) THEN "return" ELSE "phase4"
    /\ UNCHANGED <<unassigned_leaders, unassigned_members, max_team_size,
                   all_members, timezone_clusters, category_orphans,
                   semantic_orphans, team_idx, all_orphans, result, error, trim>>

\* line 79: only final_teams is handed back
Return ==
    /\ pc = "return"
    /\ result' = final_teams
    /\ pc' = "done"
    /\ UNCHANGED <<unassigned_leaders, unassigned_members, max_team_size,
                   all_members, timezone_clusters, proposed_teams,
                   category_orphans, final_teams, semantic_orphans, team_idx,
                   all_orphans, orphan_idx, still_unassigned, error, trim,
                   placement>>

\* the same call on a larger pool of well-formed profiles with a larger
\* max_team_size, such that Phase 2 forms no team above max_team_size
RoomyShapes(role, data) ==
    {[has_user_id |-> TRUE, role_title |-> role, profile_data |-> d] : d \in data}
RoomyData(timezone, category) ==
    [mapping |-> TRUE, timezone |-> timezone, category |-> category,
     goals |-> <<>>, habits |-> <<>>]
RoomyLeaderData ==
    {RoomyData("UTC", {<<"tech", "ai">>}), RoomyData("CET", {}),
     RoomyData("EST", {<<"tech", "ai">>})}
RoomyMemberData ==
    {RoomyData("UTC", {<<"tech", "ai">>}), RoomyData("CET", {<<"tech", "ai">>}),
     RoomyData("", {})}
FormInitRoomy ==
    /\ \E nl \in 1..MaxSeeds : \E nm \in 1..MaxJoiners :
         \E ls \in [1..nl -> RoomyShapes("Team Leader", RoomyLeaderData)] :
           \E ms \in [1..nm -> RoomyShapes("Team Member", RoomyMemberData)] :
             /\ unassigned_leaders = [i \in 1..nl |-> WithUserId(ls[i], i)]
             /\ unassigned_members = [i \in 1..nm |-> WithUserId(ms[i], nl + i)]
    /\ max_team_size \in 1..MaxSize
    /\ FormStart
    /\ LET pool == unassigned_leaders \o unassigned_members
           clusters == cluster_by_timezone([i \in 1..Len(pool) |-> TeamMember(pool[i])])
       IN  \A k \in 1..Len(clusters) :
               \A t \in Range(cluster_group(clusters[k].members).teams) :
                   Len(t.members) <= max_team_size

\* the same call with lists whose profiles carry any role_title: "Team
\* Leader", "Team Member", or none (line 46 then takes '')
RoleTitles == {"Team Leader", "Team Member", ""}
AnyRoleShapes ==
    {[has_user_id |-> TRUE, role_title |-> r,
      profile_data |-> RoomyData("UTC", {<<"tech", "ai">>})] : r \in RoleTitles}
    \cup {[has_user_id |-> FALSE, role_title |-> "Team Member",
           profile_data |-> PlainData],
          [has_user_id |-> TRUE, role_title |-> "Team Member",
           profile_data |-> BadData]}
FormInitAnyRole == FormInitOver(AnyRoleShapes, AnyRoleShapes)

FormInit ==
    \/ FormInitOver(ProfileShapes("Team Leader"), ProfileShapes("Team Member"))
    \/ FormInitRoomy

FormNext ==
    \/ BuildMembers
    \/ ClusterByTimezone
    \/ ClusterByTimezoneRaises
    \/ ClusterByCategory
    \/ KeepTeam
    \/ OptimizeOversizedTeam
    \/ OptimizeRaises
    \/ BeginReassign
    \/ ReassignOrphan
    \/ Return

\* ------------------------------------------------- get_member_categories
\* goal and habit strings, as the words they contain
Texts == {{}, {"sleep"}, {"code"}, {"ai", "code"}, {"code", "gym"}}
ItemLists == UNION {[1..n -> Texts] : n \in 0..MaxItems}
MatcherData == [mapping : {TRUE}, timezone : {""}, category : CategorySets,
                goals : ItemLists, habits : ItemLists]

\* one of the orders the hash seed can give; without goals or habits in the
\* profiles no result depends on it
NoMatcherUse ==
    set_order = [keywords |-> CHOOSE p \in Orders(Keywords) : TRUE,
                 categories |-> CHOOSE p \in Orders(Categories) : TRUE]

CategoriesInit ==
    /\ \E d \in MatcherData :
         call = [fn |-> "get_member_categories", profile_data |-> d]
    /\ returns = <<>>
    /\ set_order \in [keywords : Orders(Keywords), categories : Orders(Categories)]

GetMemberCategories ==
    /\ call.fn = "get_member_categories"
    /\ returns = <<>>
    /\ returns' = <<get_member_categories(call.profile_data)>>
    /\ UNCHANGED <<call, set_order>>

\* ------------------------------------------------- CategoryMatcher()
\* keyword tables: sub-categories with distinct names, each with a list of
\* keywords as written in the table
KeywordStrings == {"ai", "AI", "code"}
KeywordLists == UNION {[1..n -> KeywordStrings] : n \in 0..MaxKeywords}
SubCategories == {<<"tech", "ai">>, <<"tech", "web">>}
Tables ==
    {<<>>}
    \cup {<<[domain |-> c[1], sub |-> c[2], keywords |-> ks]>> :
              c \in SubCategories, ks \in KeywordLists}
    \cup {<<[domain |-> "tech", sub |-> o[1], keywords |-> ks1],
            [domain |-> "tech", sub |-> o[2], keywords |-> ks2]>> :
              o \in {<<"ai", "web">>, <<"web", "ai">>},
              ks1 \in KeywordLists, ks2 \in KeywordLists}

MatcherInit ==
    /\ \E t \in Tables : call = [fn |-> "CategoryMatcher", table |-> t]
    /\ returns = <<>>
    /\ NoMatcherUse

\* lines 14-21: the matcher after construction
ProcessKeywords ==
    /\ call.fn = "CategoryMatcher"
    /\ returns = <<>>
    /\ returns' = <<process_keywords(call.table)>>
    /\ UNCHANGED <<call, set_order>>

\* ------------------------------------------------- _calculate_categorical_score
\* category sets over two domains with two sub-categories each
CategoryStrings == {<<"tech", "ai">>, <<"tech", "web">>,
                    <<"health", "fitness">>, <<"health", "sleep">>}
CategorySetsUpTo(n) == {S \in SUBSET CategoryStrings : Cardinality(S) <= n}

ScoreInit ==
    /\ \E A \in CategorySetsUpTo(MaxCategories) :
         \E B \in CategorySetsUpTo(MaxCategories) :
           call = [fn |-> "_calculate_categorical_score",
                   categories1 |-> A, categories2 |-> B]
    /\ returns = <<>>
    /\ NoMatcherUse

\* the score of the two sets, asked in both orders
CalculateCategoricalScore ==
    /\ call.fn = "_calculate_categorical_score"
    /\ returns = <<>>
    /\ returns' = <<calculate_categorical_score(call.categories1, call.categories2),
                    calculate_categorical_score(call.categories2, call.categories1)>>
    /\ UNCHANGED <<call, set_order>>

\* ------------------------------------------------- _apply_similarity_bonuses
\* cosine similarities in hundredths, as util.cos_sim yields them for two
\* lists of sentences: opposed, moderately alike, nearly the same
CellValues == {-50, 50, 95}
Matrices == UNION {[1..n -> CellValues] : n \in 0..MaxCells}

BonusInit ==
    /\ \E m \in Matrices : call = [fn |-> "_apply_similarity_bonuses", matrix |-> m]
    /\ returns = <<>>
    /\ NoMatcherUse

ApplySimilarityBonuses ==
    /\ call.fn = "_apply_similarity_bonuses"
    /\ returns = <<>>
    /\ returns' = <<apply_similarity_bonuses(call.matrix)>>
    /\ UNCHANGED <<call, set_order>>

\* ------------------------------------------------- find_best_teams_for_member
\* find_best_teams_for_member sorting without reverse=True
find_best_teams_ascending(member_profile, all_teams, cap) ==
    LET profile_data == member_profile.profile_data
        open == SelectSeq([t \in 1..Len(all_teams) |-> t],
                    LAMBDA t : /\ ~(Len(all_teams[t].members) >= cap)
                               /\ get_leaders(all_teams[t]) # <<>>)
        recommendations == [k \in 1..Len(open) |->
            LET fit_scores == calculate_member_team_fit(profile_data,
                                  get_leaders(all_teams[open[k]]))
            IN  [team_name |-> all_teams[open[k]].team_role,
                 size |-> Len(all_teams[open[k]].members),
                 tz_score |-> fit_scores.tz_score,
                 cat_score |-> fit_scores.cat_score]]
        ranked == SortedDescBy(recommendations, LAMBDA x, y : Tier2Greater(y, x))
    IN  [i \in 1..Len(ranked) |->
            [team_name |-> ranked[i].team_name,
             score |-> <<Format2f(ranked[i].tz_score),
                         Format2f(ranked[i].cat_score)>>]]

\* lines 190-215; cap is self.config.max_team_size
find_best_teams_for_member(member_profile, all_teams, cap) ==
    LET profile_data == member_profile.profile_data
        open == SelectSeq([t \in 1..Len(all_teams) |-> t],
                    LAMBDA t : /\ ~(Len(all_teams[t].members) >= cap)
                               /\ get_leaders(all_teams[t]) # <<>>)
        recommendations == [k \in 1..Len(open) |->
            LET fit_scores == calculate_member_team_fit(profile_data,
                                  get_leaders(all_teams[open[k]]))
            IN  [team_name |-> all_teams[open[k]].team_role,
                 size |-> Len(all_teams[open[k]].members),
                 tz_score |-> fit_scores.tz_score,
                 cat_score |-> fit_scores.cat_score]]
        ranked == SortedDescBy(recommendations, Tier2Greater)
    IN  [i \in 1..Len(ranked) |->
            [team_name |-> ranked[i].team_name,
             score |-> <<Format2f(ranked[i].tz_score),
                         Format2f(ranked[i].cat_score)>>]]

\* the persisted teams a recommendation is computed against: member lists of
\* teams with no leader, one leader, or two leaders at different offsets
ExistingLeaderData == {d \in GoodData : d.timezone \in {"UTC", "EST"}}
ExistingMember(role, d) == [role_title |-> role, profile_data |-> d]
ExistingMemberLists ==
    {<<>>, <<ExistingMember("Team Member", PlainData)>>}
    \cup {<<ExistingMember("Team Leader", d)>> : d \in ExistingLeaderData}
    \cup {<<ExistingMember("Team Leader", d),
            ExistingMember("Team Member", PlainData)>> : d \in ExistingLeaderData}
    \cup {<<ExistingMember("Team Leader", d), ExistingMember("Team Leader", e)>> :
              d \in {x \in ExistingLeaderData : x.timezone = "UTC"},
              e \in {x \in ExistingLeaderData : x.timezone = "EST"}}

\* team_role is the number k of "Team k"
FindInit ==
    /\ \E n \in 0..MaxTeams : \E ms \in [1..n -> ExistingMemberLists] :
         \E d \in GoodData : \E cap \in 1..MaxCap :
           call = [fn |-> "find_best_teams_for_member",
                   member_profile |-> [profile_data |-> d],
                   all_teams |-> [k \in 1..n |->
                                     [team_role |-> k, members |-> ms[k]]],
                   max_team_size |-> cap]
    /\ returns = <<>>
    /\ NoMatcherUse

FindBestTeamsForMember ==
    /\ call.fn = "find_best_teams_for_member"
    /\ Len(returns) < MaxRepeats
    /\ returns' = Append(returns,
           find_best_teams_for_member(call.member_profile, call.all_teams,
                                      call.max_team_size))
    /\ UNCHANGED <<call, set_order>>

\* ------------------------------------------------- calculate_compatibility
\* Optional[float] offsets: None and the half hours of the bounded range
Offsets == {<<>>} \cup {<<30 * k>> : k \in (-2 * MaxHours)..(2 * MaxHours)}

TzInit ==
    /\ \E x \in Offsets : \E y \in Offsets :
         call = [fn |-> "calculate_compatibility",
                 tz_offset1 |-> x, tz_offset2 |-> y]
    /\ returns = <<>>
    /\ NoMatcherUse

CalculateCompatibility ==
    /\ call.fn = "calculate_compatibility"
    /\ returns = <<>>
    /\ returns' = <<calculate_compatibility(call.tz_offset1, call.tz_offset2)>>
    /\ UNCHANGED <<call, set_order>>

\* ------------------------------------------------- batch_create_teams
\* Persistence: db_teams is the teams collection of one guild, one document
\* per insert_one (doc_id stands for Mongo's _id); db_unregistered holds the
\* user_ids of the unregistered document.  The two confirmations are two
\* running batch_create_teams coroutines of one guild (two presses of the
\* confirm button of a FormationResultsView, or of two such views); control
\* may pass from one to the other at an await.
Confirmations == {"first", "second"}

\* proposed team number k of a formation view, as its member user_ids: a
\* leader with one member, then single leaders
ProposedTeam(k) == IF k = 1 THEN <<1, 2>> ELSE <<k + 1>>

\* database.py get_max_team_number
get_max_team_number(teams) ==
    IF teams = {} THEN 0
    ELSE CHOOSE n \in {t.team_number : t \in teams} :
             \A t \in teams : t.team_number <= n

BatchInit ==
    /\ db_teams = {}
    /\ db_unregistered = UNION {Range(ProposedTeam(k)) : k \in 1..MaxProposed}
    /\ \E lens \in [Confirmations -> 0..MaxProposed] :
         proposals = [c \in Confirmations |-> [k \in 1..lens[c] |-> ProposedTeam(k)]]
    /\ bpc = [c \in Confirmations |-> "loop"]
    /\ batch_i = [c \in Confirmations |-> 1]
    /\ new_team_number = [c \in Confirmations |-> 0]
    /\ created_count = [c \in Confirmations |-> 0]
    /\ failed_teams = [c \in Confirmations |-> <<>>]
    /\ attempts = [c \in Confirmations |-> <<>>]
    /\ removed_upto = [c \in Confirmations |-> 0]

\* line 255: the for loop takes the next proposed team, or line 282 returns
StartIteration(c) ==
    /\ bpc[c] = "loop"
    /\ IF batch_i[c] <= Len(proposals[c])
       THEN /\ attempts' = [attempts EXCEPT ![c] = Append(@, batch_i[c])]
            /\ bpc' = [bpc EXCEPT ![c] = "get_max"]
       ELSE /\ bpc' = [bpc EXCEPT ![c] = "returned"]
            /\ UNCHANGED attempts
    /\ UNCHANGED <<db_teams, db_unregistered, proposals,
                   batch_i, new_team_number, created_count, failed_teams,
                   removed_upto>>

\* line 257
GetMaxTeamNumber(c) ==
    /\ bpc[c] = "get_max"
    /\ new_team_number' = [new_team_number EXCEPT
                              ![c] = get_max_team_number(db_teams) + 1]
    /\ bpc' = [bpc EXCEPT ![c] = "insert"]
    /\ UNCHANGED <<db_teams, db_unregistered, proposals,
                   batch_i, created_count, failed_teams, attempts, removed_upto>>

\* lines 261-267
InsertTeam(c) ==
    /\ bpc[c] = "insert"
    /\ db_teams' = db_teams \cup
           {[doc_id |-> <<c, batch_i[c]>>,
             team_number |-> new_team_number[c],
             members |-> Range(proposals[c][batch_i[c]])]}
    /\ bpc' = [bpc EXCEPT ![c] = "marathon"]
    /\ UNCHANGED <<db_unregistered, proposals, batch_i,
                   new_team_number, created_count, failed_teams, attempts,
                   removed_upto>>

\* lines 269-273: is_marathon_active and, with the marathon active, the
\* provisioning of role and channel; neither writes teams or the unregistered
\* document
ProvisionIfActive(c) ==
    /\ bpc[c] = "marathon"
    /\ bpc' = [bpc EXCEPT ![c] = "remove"]
    /\ removed_upto' = [removed_upto EXCEPT ![c] = 0]
    /\ UNCHANGED <<db_teams, db_unregistered, proposals,
                   batch_i, new_team_number, created_count, failed_teams,
                   attempts>>

\* lines 275-277: one remove_unregistered_member per member, then the count
RemoveUnregistered(c) ==
    /\ bpc[c] = "remove"
    /\ LET members == proposals[c][batch_i[c]]
       IN  IF removed_upto[c] < Len(members)
           THEN /\ db_unregistered' = db_unregistered \ {members[removed_upto[c] + 1]}
                /\ removed_upto' = [removed_upto EXCEPT ![c] = @ + 1]
                /\ UNCHANGED <<bpc, batch_i, created_count>>
           ELSE /\ created_count' = [created_count EXCEPT ![c] = @ + 1]
                /\ batch_i' = [batch_i EXCEPT ![c] = @ + 1]
                /\ bpc' = [bpc EXCEPT ![c] = "loop"]
                /\ UNCHANGED <<db_unregistered, removed_upto>>
    /\ UNCHANGED <<db_teams, proposals, new_team_number,
                   failed_teams, attempts>>

\* IterationFails without the except clause: the exception leaves the loop
IterationFailsUncaught(c) ==
    /\ bpc[c] \in {"get_max", "insert", "marathon", "remove"}
    /\ bpc' = [bpc EXCEPT ![c] = "returned"]
    /\ UNCHANGED <<db_teams, db_unregistered, proposals,
                   batch_i, new_team_number, created_count, failed_teams,
                   attempts, removed_upto>>

\* lines 278-280: an awaited call of the iteration raises, the handler records
\* the proposed team as failed and the loop goes on
IterationFails(c) ==
    /\ bpc[c] \in {"get_max", "insert", "marathon", "remove"}
    /\ failed_teams' = [failed_teams EXCEPT ![c] = Append(@, batch_i[c])]
    /\ batch_i' = [batch_i EXCEPT ![c] = @ + 1]
    /\ bpc' = [bpc EXCEPT ![c] = "loop"]
    /\ UNCHANGED <<db_teams, db_unregistered, proposals,
                   new_team_number, created_count, attempts, removed_upto>>

BatchNext ==
    \E c \in Confirmations :
        \/ StartIteration(c)
        \/ GetMaxTeamNumber(c)
        \/ InsertTeam(c)
        \/ ProvisionIfActive(c)
        \/ RemoveUnregistered(c)
        \/ IterationFails(c)

\* ------------------------------------------------- assign_member_to_team
\* Each flow is one moderator session assigning one unregistered member: flow
\* f assigns the member with user_id f.  The persisted team number k has the
\* leader 10 * k and possibly the member 10 * k + 1.  Control may pass from
\* one flow to another at every await.
Flows == 1..NumFlows
ExistingTeamDoc(k, with_member) ==
    [doc_id |-> <<"existing", k>>, team_number |-> k,
     members |-> IF with_member THEN {10 * k, 10 * k + 1} ELSE {10 * k}]

\* the user_ids of a persisted member map, in ascending order
ListOf(ids) ==
    [i \in 1..Cardinality(ids) |->
        CHOOSE x \in ids : Cardinality({y \in ids : y < x}) = i - 1]
\* team_utils.build_team_from_data on each document, sorted by team_number
\* (team_service.py lines 78-81)
get_all_teams(docs) ==
    LET numbers == ListOf({d.team_number : d \in docs})
        doc(k) == CHOOSE d \in docs : d.team_number = k
        member(uid) == ExistingMember(
            IF uid >= 10 /\ uid % 10 = 0 THEN "Team Leader" ELSE "Team Member",
            PlainData)
    IN  [i \in 1..Len(numbers) |->
            [team_role |-> numbers[i],
             members |-> [j \in 1..Cardinality(doc(numbers[i]).members) |->
                             member(ListOf(doc(numbers[i]).members)[j])]]]

AssignInit ==
    /\ config_max_team_size \in 1..MaxCap
    /\ \E n \in 1..MaxTeams : \E with \in [1..n -> BOOLEAN] :
         /\ db_teams = {ExistingTeamDoc(k, with[k]) : k \in 1..n}
         /\ \A d \in db_teams : Cardinality(d.members) <= config_max_team_size
    /\ db_unregistered = Flows
    /\ apc = [f \in Flows |-> "get_profile"]
    /\ recommended = [f \in Flows |-> <<>>]
    /\ selected_team_name = [f \in Flows |-> 0]
    /\ team_members = [f \in Flows |-> {}]
    /\ assign_returns = [f \in Flows |-> "none"]
    /\ bpc = [c \in Confirmations |-> "idle"]
    /\ proposals = [c \in Confirmations |-> <<>>]
    /\ batch_i = [c \in Confirmations |-> 1]
    /\ new_team_number = [c \in Confirmations |-> 0]
    /\ created_count = [c \in Confirmations |-> 0]
    /\ failed_teams = [c \in Confirmations |-> <<>>]
    /\ attempts = [c \in Confirmations |-> <<>>]
    /\ removed_upto = [c \in Confirmations |-> 0]

\* views.py lines 143-149
GetUnassignedMemberProfile(f) ==
    /\ apc[f] = "get_profile"
    /\ apc' = [apc EXCEPT ![f] = IF f \in db_unregistered
                                 THEN "recommend" ELSE "ended"]
    /\ UNCHANGED <<db_teams, db_unregistered, batchLocals, config_max_team_size,
                   recommended, selected_team_name, team_members, assign_returns>>

\* views.py lines 151-158: the recommendations shown in the dropdown
Recommend(f) ==
    /\ apc[f] = "recommend"
    /\ LET recommendations == find_best_teams_for_member(
                                  [profile_data |-> PlainData],
                                  get_all_teams(db_teams), config_max_team_size)
       IN  /\ recommended' = [recommended EXCEPT ![f] = recommendations]
           /\ apc' = [apc EXCEPT ![f] = IF recommendations = <<>>
                                        THEN "ended" ELSE "select"]
    /\ UNCHANGED <<db_teams, db_unregistered, batchLocals, config_max_team_size,
                   selected_team_name, team_members, assign_returns>>

\* views.py lines 177-183 and lines 219-223: the moderator picks one of the
\* recommended teams and assign_member_to_team fetches it
GetTeam(f) ==
    /\ apc[f] = "select"
    /\ \E i \in 1..Len(recommended[f]) :
         LET team_name == recommended[f][i].team_name
             found == {d \in db_teams : d.team_number = team_name}
         IN  /\ selected_team_name' = [selected_team_name EXCEPT ![f] = team_name]
             /\ IF found = {}
                THEN /\ assign_returns' = [assign_returns EXCEPT ![f] = "not found"]
                     /\ apc' = [apc EXCEPT ![f] = "ended"]
                     /\ UNCHANGED team_members
                ELSE /\ team_members' = [team_members EXCEPT
                                            ![f] = (CHOOSE d \in found : TRUE).members]
                     /\ apc' = [apc EXCEPT ![f] = "get_document"]
                     /\ UNCHANGED assign_returns
    /\ UNCHANGED <<db_teams, db_unregistered, batchLocals, config_max_team_size,
                   recommended>>

\* lines 226-231
GetUnregisteredDocument(f) ==
    /\ apc[f] = "get_document"
    /\ IF f \in db_unregistered
       THEN /\ apc' = [apc EXCEPT ![f] = "update"]
            /\ UNCHANGED assign_returns
       ELSE /\ assign_returns' = [assign_returns EXCEPT ![f] = "no profile"]
            /\ apc' = [apc EXCEPT ![f] = "ended"]
    /\ UNCHANGED <<db_teams, db_unregistered, batchLocals, config_max_team_size,
                   recommended, selected_team_name, team_members>>

\* lines 234-235 with database.py lines 70-76: the member map of the fetched
\* team with the new member is written over the persisted one
UpdateTeamMembers(f) ==
    /\ apc[f] = "update"
    /\ team_members' = [team_members EXCEPT ![f] = @ \cup {f}]
    /\ db_teams' = {IF d.team_number = selected_team_name[f]
                    THEN [d EXCEPT !.members = team_members[f] \cup {f}]
                    ELSE d : d \in db_teams}
    /\ apc' = [apc EXCEPT ![f] = "remove"]
    /\ UNCHANGED <<db_unregistered, batchLocals, config_max_team_size,
                   recommended, selected_team_name, assign_returns>>

\* line 236 with database.py lines 185-193
RemoveUnregisteredMember(f) ==
    /\ apc[f] = "remove"
    /\ db_unregistered' = db_unregistered \ {f}
    /\ apc' = [apc EXCEPT ![f] = "roles"]
    /\ UNCHANGED <<db_teams, batchLocals, config_max_team_size, recommended,
                   selected_team_name, team_members, assign_returns>>

\* lines 239-250: the Discord role, then the success message
AssignReturns(f) ==
    /\ apc[f] = "roles"
    /\ assign_returns' = [assign_returns EXCEPT ![f] = "success"]
    /\ apc' = [apc EXCEPT ![f] = "ended"]
    /\ UNCHANGED <<db_teams, db_unregistered, batchLocals, config_max_team_size,
                   recommended, selected_team_name, team_members>>

\* line 242 or 247: add_roles raises (discord.Forbidden), nothing catches it
AssignRaises(f) ==
    /\ apc[f] = "roles"
    /\ assign_returns' = [assign_returns EXCEPT ![f] = "raised"]
    /\ apc' = [apc EXCEPT ![f] = "ended"]
    /\ UNCHANGED <<db_teams, db_unregistered, batchLocals, config_max_team_size,
                   recommended, selected_team_name, team_members>>

AssignNext ==
    \E f \in Flows :
        \/ GetUnassignedMemberProfile(f)
        \/ Recommend(f)
        \/ GetTeam(f)
        \/ GetUnregisteredDocument(f)
        \/ UpdateTeamMembers(f)
        \/ RemoveUnregisteredMember(f)
        \/ AssignReturns(f)
        \/ AssignRaises(f)

\* ------------------------------------------------- SimilarityCalculator
\* model_cache is the module-level _model_cache: <<>> is None, otherwise one
\* record that is a model handle or the cached exception.  model_load_lock is
\* 0 when free, else the caller holding it.  self_model is self.model of each
\* SimilarityCalculator instance.  The steps of _load_model are taken one at a
\* time, which allows every interleaving an event loop could produce and more.
Callers == 1..NumCallers
Instances == 1..NumCallers

LoadInit ==
    /\ model_cache = <<>>
    /\ model_load_lock = 0
    /\ self_model = [i \in Instances |-> <<>>]
    /\ instance_of \in [Callers -> Instances]
    /\ lpc = [c \in Callers |-> "idle"]
    /\ constructs = 0
    /\ outcomes = [c \in Callers |-> <<>>]

IsException(cache) == cache # <<>> /\ cache[1].kind = "exception"

\* line 62
Compare(c) ==
    /\ lpc[c] = "idle"
    /\ Len(outcomes[c]) < MaxCalls
    /\ lpc' = [lpc EXCEPT ![c] = IF self_model[instance_of[c]] = <<>>
                                 THEN "acquire" ELSE "execute"]
    /\ UNCHANGED <<model_cache, model_load_lock, self_model, instance_of,
                   constructs, outcomes>>

\* line 34
AcquireLock(c) ==
    /\ lpc[c] = "acquire"
    /\ model_load_lock = 0
    /\ model_load_lock' = c
    /\ lpc' = [lpc EXCEPT ![c] = "locked"]
    /\ UNCHANGED <<model_cache, self_model, instance_of, constructs, outcomes>>

\* StartLoad without the test of line 35: it constructs whatever the cache holds
StartLoadUnchecked(c) ==
    /\ lpc[c] = "locked"
    /\ constructs' = constructs + 1
    /\ lpc' = [lpc EXCEPT ![c] = "loading"]
    /\ UNCHANGED <<model_cache, model_load_lock, self_model, instance_of, outcomes>>

\* lines 35-39: the constructor is invoked only while the cache is None
StartLoad(c) ==
    /\ lpc[c] = "locked"
    /\ IF model_cache = <<>>
       THEN /\ constructs' = constructs + 1
            /\ lpc' = [lpc EXCEPT ![c] = "loading"]
       ELSE /\ lpc' = [lpc EXCEPT ![c] = "loaded"]
            /\ UNCHANGED constructs
    /\ UNCHANGED <<model_cache, model_load_lock, self_model, instance_of, outcomes>>

\* lines 39-40
LoadSucceeds(c) ==
    /\ lpc[c] = "loading"
    /\ model_cache' = <<[kind |-> "model", id |-> constructs]>>
    /\ lpc' = [lpc EXCEPT ![c] = "loaded"]
    /\ UNCHANGED <<model_load_lock, self_model, instance_of, constructs, outcomes>>

\* LoadFails without line 43: the exception is raised but not cached
LoadFailsUncached(c) ==
    /\ lpc[c] = "loading"
    /\ model_load_lock' = 0
    /\ outcomes' = [outcomes EXCEPT ![c] = Append(@, "raised")]
    /\ lpc' = [lpc EXCEPT ![c] = "idle"]
    /\ UNCHANGED <<model_cache, self_model, instance_of, constructs>>

\* lines 41-44: the exception is cached and raised, the lock is released
LoadFails(c) ==
    /\ lpc[c] = "loading"
    /\ model_cache' = <<[kind |-> "exception", id |-> constructs]>>
    /\ model_load_lock' = 0
    /\ outcomes' = [outcomes EXCEPT ![c] = Append(@, "raised")]
    /\ lpc' = [lpc EXCEPT ![c] = "idle"]
    /\ UNCHANGED <<self_model, instance_of, constructs>>

\* lines 45-47
FinishLoad(c) ==
    /\ lpc[c] = "loaded"
    /\ model_load_lock' = 0
    /\ IF IsException(model_cache)
       THEN /\ outcomes' = [outcomes EXCEPT ![c] = Append(@, "raised")]
            /\ lpc' = [lpc EXCEPT ![c] = "idle"]
            /\ UNCHANGED self_model
       ELSE /\ self_model' = [self_model EXCEPT ![instance_of[c]] = model_cache]
            /\ lpc' = [lpc EXCEPT ![c] = "execute"]
            /\ UNCHANGED outcomes
    /\ UNCHANGED <<model_cache, instance_of, constructs>>

\* lines 63-64
Execute(c) ==
    /\ lpc[c] = "execute"
    /\ outcomes' = [outcomes EXCEPT ![c] = Append(@, "ok")]
    /\ lpc' = [lpc EXCEPT ![c] = "idle"]
    /\ UNCHANGED <<model_cache, model_load_lock, self_model, instance_of,
                   constructs>>

LoadNext ==
    \E c \in Callers :
        \/ Compare(c)
        \/ AcquireLock(c)
        \/ StartLoad(c)
        \/ LoadSucceeds(c)
        \/ LoadFails(c)
        \/ FinishLoad(c)
        \/ Execute(c)

\* ------------------------------------------------- specifications
\* the parts of the state a specification does not exercise stay as they are
FormIdle ==
    /\ unassigned_leaders = <<>> /\ unassigned_members = <<>>
    /\ max_team_size = 1 /\ pc = "idle" /\ all_members = <<>>
    /\ timezone_clusters = <<>> /\ proposed_teams = <<>>
    /\ category_orphans = <<>> /\ final_teams = <<>>
    /\ semantic_orphans = <<>> /\ team_idx = 1 /\ all_orphans = <<>>
    /\ orphan_idx = 1 /\ still_unassigned = <<>> /\ result = <<>>
    /\ error = "none" /\ trim = <<>> /\ placement = <<>>

BatchIdle ==
    /\ db_teams = {} /\ db_unregistered = {}
    /\ bpc = [c \in Confirmations |-> "idle"]
    /\ proposals = [c \in Confirmations |-> <<>>]
    /\ batch_i = [c \in Confirmations |-> 1]
    /\ new_team_number = [c \in Confirmations |-> 0]
    /\ created_count = [c \in Confirmations |-> 0]
    /\ failed_teams = [c \in Confirmations |-> <<>>]
    /\ attempts = [c \in Confirmations |-> <<>>]
    /\ removed_upto = [c \in Confirmations |-> 0]

AssignIdle ==
    /\ config_max_team_size = 1
    /\ apc = [f \in Flows |-> "idle"]
    /\ recommended = [f \in Flows |-> <<>>]
    /\ selected_team_name = [f \in Flows |-> 0]
    /\ team_members = [f \in Flows |-> {}]
    /\ assign_returns = [f \in Flows |-> "none"]

LoadIdle ==
    /\ model_cache = <<>> /\ model_load_lock = 0
    /\ self_model = [i \in Instances |-> <<>>]
    /\ instance_of = [c \in Callers |-> 1]
    /\ lpc = [c \in Callers |-> "off"]
    /\ constructs = 0
    /\ outcomes = [c \in Callers |-> <<>>]

CallIdle == call = [fn |-> "none"] /\ returns = <<>> /\ NoMatcherUse

Init == FormInit /\ BatchIdle /\ AssignIdle /\ LoadIdle /\ CallIdle
Next == FormNext /\ UNCHANGED <<batchVars, assignVars, loadVars, callVars>>
Spec == Init /\ [][Next]_vars

InitBatch == FormIdle /\ BatchInit /\ AssignIdle /\ LoadIdle /\ CallIdle
NextBatch == BatchNext /\ UNCHANGED <<formVars, assignVars, loadVars, callVars>>
SpecBatch == InitBatch /\ [][NextBatch]_vars

InitLoad == FormIdle /\ BatchIdle /\ AssignIdle /\ LoadInit /\ CallIdle
NextLoad == LoadNext /\ UNCHANGED <<formVars, batchVars, assignVars, callVars>>
SpecLoad == InitLoad /\ [][NextLoad]_vars

InitTz == FormIdle /\ BatchIdle /\ AssignIdle /\ LoadIdle /\ TzInit
NextTz == CalculateCompatibility /\ UNCHANGED <<formVars, batchVars, assignVars, loadVars>>
SpecTz == InitTz /\ [][NextTz]_vars

InitCategories == FormIdle /\ BatchIdle /\ AssignIdle /\ LoadIdle /\ CategoriesInit
NextCategories == GetMemberCategories /\ UNCHANGED <<formVars, batchVars, assignVars, loadVars>>
SpecCategories == InitCategories /\ [][NextCategories]_vars

InitMatcher == FormIdle /\ BatchIdle /\ AssignIdle /\ LoadIdle /\ MatcherInit
NextMatcher == ProcessKeywords /\ UNCHANGED <<formVars, batchVars, assignVars, loadVars>>
SpecMatcher == InitMatcher /\ [][NextMatcher]_vars

InitScore == FormIdle /\ BatchIdle /\ AssignIdle /\ LoadIdle /\ ScoreInit
NextScore == CalculateCategoricalScore /\ UNCHANGED <<formVars, batchVars, assignVars, loadVars>>
SpecScore == InitScore /\ [][NextScore]_vars

InitBonus == FormIdle /\ BatchIdle /\ AssignIdle /\ LoadIdle /\ BonusInit
NextBonus == ApplySimilarityBonuses /\ UNCHANGED <<formVars, batchVars, assignVars, loadVars>>
SpecBonus == InitBonus /\ [][NextBonus]_vars

InitAssign == FormIdle /\ AssignInit /\ LoadIdle /\ CallIdle
NextAssign == AssignNext /\ UNCHANGED <<formVars, loadVars, callVars>>
SpecAssign == InitAssign /\ [][NextAssign]_vars

InitRoles == FormInitAnyRole /\ BatchIdle /\ AssignIdle /\ LoadIdle /\ CallIdle
SpecRoles == InitRoles /\ [][Next]_vars

InitFind == FormIdle /\ BatchIdle /\ AssignIdle /\ LoadIdle /\ FindInit
NextFind == FindBestTeamsForMember /\ UNCHANGED <<formVars, batchVars, assignVars, loadVars>>
SpecFind == InitFind /\ [][NextFind]_vars

\* ------------------------------------------------- properties: formation run
Pool == unassigned_leaders \o unassigned_members
PoolIdSeq == LET with == SelectSeq(Pool, LAMBDA p : p.has_user_id)
             IN  [i \in 1..Len(with) |-> with[i].user_id]
IdSeq(members) == [i \in 1..Len(members) |-> members[i].user_id]

AfterPhase2 == pc \in {"phase3", "phase4", "return", "done"}
\* the teams and the orphan pool as they stand at the current point of the run
TeamsNow == IF pc = "phase3" THEN proposed_teams ELSE final_teams
OrphansNow ==
    IF pc = "phase3" THEN category_orphans \o semantic_orphans
    ELSE IF pc = "phase4"
         THEN still_unassigned \o SubSeq(all_orphans, orphan_idx, Len(all_orphans))
         ELSE still_unassigned
PlacedIdSeq ==
    Flatten([t \in 1..Len(TeamsNow) |-> IdSeq(TeamsNow[t].members)]) \o IdSeq(OrphansNow)

\* C1: from the end of Phase 2 to the end of the run, the user_ids in the teams
\* together with those in the orphan pool are exactly the user_ids of the
\* input pool, each one once (a record without user_id has none to conserve).
Conservation ==
    AfterPhase2 =>
        LET placed == PlacedIdSeq
            given == PoolIdSeq
        IN  /\ Len(placed) = Len(given)
            /\ \A id \in Range(given) \cup Range(placed) :
                   Count(placed, id) = Count(given, id)

\* a finished run over a pool where every record has a user_id, in which a
\* member joined a team, one was evicted and one stayed unassigned
ConservationWitness ==
    /\ pc = "done"
    /\ \A i \in 1..Len(Pool) : Pool[i].has_user_id
    /\ semantic_orphans # <<>>
    /\ still_unassigned # <<>>
    /\ \E t \in 1..Len(result) : Len(result[t].members) >= 2

\* C2: no team handed on by Phase 3, grown by Phase 4 or returned holds more
\* than max_team_size members.
Capacity ==
    /\ \A t \in 1..Len(final_teams) : Len(final_teams[t].members) <= max_team_size
    /\ \A t \in 1..Len(result) : Len(result[t].members) <= max_team_size

\* Phase 4 filled a team with an orphan and a later orphan found it full
CapacityWitness ==
    /\ pc = "done"
    /\ still_unassigned # <<>>
    /\ \E t \in 1..Len(result) :
         /\ Len(result[t].members) = max_team_size
         /\ \E i \in 1..Len(all_orphans) :
                /\ all_orphans[i].user_id \in UserIds(result[t].members)
                /\ \E j \in (i + 1)..Len(all_orphans) :
                       all_orphans[j] \in Range(still_unassigned)

ReturnsUnassigned ==
    pc = "done" =>
        \A i \in 1..Len(still_unassigned) :
            still_unassigned[i].user_id \in
                UNION {UserIds(result[t].members) : t \in 1..Len(result)}

\* C5: a run never ends by raising on a malformed record.
BadRecordNeverAborts == ~(pc = "raised" /\ error = "profile_data")

\* C10: a trimmed team of n > max_team_size members keeps exactly max_team_size,
\* evicts exactly n - max_team_size, all of them non-leaders, and no evicted
\* member has a higher mean compatibility than a non-leader that is kept.
Phase3Trimming ==
    trim # <<>> =>
        LET t == trim[1]
            n == Len(t.before)
        IN  /\ Len(t.kept_members) = max_team_size
            /\ Len(t.orphans) = n - max_team_size
            /\ Range(t.kept_members) \cup Range(t.orphans) = Range(t.before)
            /\ \A e \in Range(t.orphans) :
                   /\ ~is_leader(e)
                   /\ \A k \in Range(t.kept_members) :
                          ~is_leader(k) =>
                              ~(t.avg_scores[e.user_id] > t.avg_scores[k.user_id])

\* a trimmed team whose evicted member scored strictly below a kept non-leader
Phase3TrimmingWitness ==
    /\ trim # <<>>
    /\ \E e \in Range(trim[1].orphans) : \E k \in Range(trim[1].kept_members) :
           /\ ~is_leader(k)
           /\ trim[1].avg_scores[e.user_id] < trim[1].avg_scores[k.user_id]

\* ------------------------------------------------- properties: Phases 1 and 2
Leaders == SelectSeq(all_members, is_leader)
NonLeaders == SelectSeq(all_members, LAMBDA m : ~is_leader(m))
CatScore(m, l) == calculate_categorical_score(
                      get_member_categories(m.profile_data),
                      get_member_categories(l.profile_data))
\* the leaders whose exact offset (None included) is the member's
GroupLeaders(m) == SelectSeq(Leaders, LAMBDA l : utc_offset(l) = utc_offset(m))
\* the teams as Phase 2 formed them, whatever Phase 3 did to them later
Phase2Teams ==
    Flatten([k \in 1..Len(timezone_clusters) |->
                 cluster_group(timezone_clusters[k].members).teams])

\* C12: when every non-leader has a leader of its own offset with which its
\* categorical score reaches the threshold, and Phase 2 forms no team above
\* max_team_size, then from the end of Phase 2 to the returned list there is
\* no orphan, every non-leader is in a team led from its own offset group,
\* and a leader alone in its offset group is a team of one.
ScenarioA ==
    (/\ AfterPhase2
     /\ \A m \in Range(NonLeaders) : \E l \in Range(GroupLeaders(m)) :
            AtLeastPercent(CatScore(m, l), MIN_CATEGORY_SCORE_THRESHOLD)
     /\ \A t \in Range(Phase2Teams) : Len(t.members) <= max_team_size)
    => LET teams == Range(TeamsNow)
       IN  /\ OrphansNow = <<>>
           /\ semantic_orphans = <<>>
           /\ \A m \in Range(NonLeaders) : \E t \in teams :
                  /\ m \in Range(t.members)
                  /\ \E l \in Range(get_leaders(t)) : utc_offset(l) = utc_offset(m)
           /\ \A l \in Range(Leaders) :
                  (\A m \in Range(NonLeaders) : utc_offset(m) # utc_offset(l))
                      => \E t \in teams : t.members = <<l>>
           /\ pc = "done" => result = TeamsNow

\* a returned formation of two leaders at different offsets: the non-leader
\* joined the leader of its offset, the other leader is a team of one
ScenarioAWitness ==
    /\ pc = "done"
    /\ Len(Leaders) = 2
    /\ utc_offset(Leaders[1]) # utc_offset(Leaders[2])
    /\ utc_offset(Leaders[1]) # <<>> /\ utc_offset(Leaders[2]) # <<>>
    /\ NonLeaders # <<>>
    /\ still_unassigned = <<>> /\ all_orphans = <<>>
    /\ \E t \in Range(result) : \E u \in Range(result) :
           Len(t.members) = 2 /\ Len(u.members) = 1

JustAfterPhase2 == pc = "phase3" /\ team_idx = 1
\* the leaders of the member's group that no leader of the group outscores
BestLeaders(m) ==
    {l \in Range(GroupLeaders(m)) :
        \A k \in Range(GroupLeaders(m)) : ~FracGT(CatScore(m, k), CatScore(m, l))}

\* C16: when Phase 2 ends, a non-leader is in a team exactly when its offset
\* group has a leader and its highest categorical score over the leaders of
\* the group reaches the threshold; the team is then the one of a leader of
\* the group with that highest score; otherwise it is among the orphans.
Phase2Rule ==
    JustAfterPhase2 =>
        \A m \in Range(NonLeaders) :
            LET placed == \E t \in Range(proposed_teams) : m \in Range(t.members)
                reaches == \E l \in BestLeaders(m) :
                    AtLeastPercent(CatScore(m, l), MIN_CATEGORY_SCORE_THRESHOLD)
            IN  /\ placed <=> reaches
                /\ placed => \E t \in Range(proposed_teams) :
                       /\ m \in Range(t.members)
                       /\ \E l \in BestLeaders(m) : l \in Range(t.members)
                /\ placed <=> m \notin Range(category_orphans)

\* a group with two leaders: the non-leader scored below the threshold with the
\* first and joined the second
Phase2RuleWitness ==
    /\ JustAfterPhase2
    /\ \E m \in Range(NonLeaders) :
          /\ Len(GroupLeaders(m)) = 2
          /\ ~AtLeastPercent(CatScore(m, GroupLeaders(m)[1]),
                              MIN_CATEGORY_SCORE_THRESHOLD)
          /\ \E t \in Range(proposed_teams) :
                 t.members = <<GroupLeaders(m)[2], m>>

Candidates == IF placement = <<>> THEN <<>> ELSE placement[1].candidates
Chosen == CHOOSE c \in Range(Candidates) : c.team = placement[1].team
Qualifies(c) == AtLeastPercent(c.tz_score, MIN_TIMEZONE_SCORE_THRESHOLD)
NoneQualifies == Candidates # <<>> /\ \A c \in Range(Candidates) : ~Qualifies(c)

\* C11: an orphan with candidate teams none of which reaches the timezone
\* threshold is added to a candidate that no candidate exceeds on (tz_score,
\* cat_score, -size); when every tz_score is 0 no candidate has a higher
\* cat_score than the chosen one.
Tier2Fallback ==
    NoneQualifies =>
        /\ placement[1].team # 0
        /\ placement[1].orphan \in Range(final_teams[placement[1].team].members)
        /\ placement[1].orphan \notin Range(still_unassigned)
        /\ \A c \in Range(Candidates) :
               /\ ~FracGT(c.tz_score, Chosen.tz_score)
               /\ FracEQ(c.tz_score, Chosen.tz_score) =>
                      /\ ~FracGT(c.cat_score, Chosen.cat_score)
                      /\ FracEQ(c.cat_score, Chosen.cat_score) =>
                             Chosen.size <= c.size
        /\ (\A c \in Range(Candidates) : c.tz_score.n = 0) =>
               \A c \in Range(Candidates) : ~FracGT(c.cat_score, Chosen.cat_score)

\* an orphan without a usable timezone met two candidate teams and went to the
\* second one, which had the higher category score
Tier2FallbackWitness ==
    /\ NoneQualifies
    /\ parse_to_utc_offset(placement[1].orphan.profile_data.timezone) = <<>>
    /\ Len(Candidates) >= 2
    /\ Chosen = Candidates[2]
    /\ FracGT(Chosen.cat_score, Candidates[1].cat_score)

\* C19: an orphan with a candidate team at or above the timezone threshold
\* is added to such a candidate: one that no other qualifying candidate
\* exceeds on cat_score, nor equals on cat_score with fewer members.
Tier1Selection ==
    (\E c \in Range(Candidates) : Qualifies(c)) =>
        /\ placement[1].team # 0
        /\ placement[1].orphan \in Range(final_teams[placement[1].team].members)
        /\ placement[1].orphan \notin Range(still_unassigned)
        /\ Qualifies(Chosen)
        /\ \A c \in Range(Candidates) :
               Qualifies(c) =>
                   /\ ~FracGT(c.cat_score, Chosen.cat_score)
                   /\ FracEQ(c.cat_score, Chosen.cat_score) => Chosen.size <= c.size

\* two qualifying candidates: the orphan went to the one with the higher
\* cat_score although the other had the higher tz_score
Tier1SelectionWitness ==
    /\ placement # <<>>
    /\ placement[1].team # 0
    /\ Qualifies(Chosen)
    /\ \E c \in Range(Candidates) :
           /\ Qualifies(c)
           /\ FracGT(c.tz_score, Chosen.tz_score)
           /\ FracGT(Chosen.cat_score, c.cat_score)

\* the teams with fewer than max_team_size members
SpareTeams == {t \in 1..Len(final_teams) :
                  Len(final_teams[t].members) < max_team_size}

\* one step of Phase 4: the next orphan of the list, against the teams as
\* they are now
PlacesNextOrphan ==
    LET orphan == all_orphans[orphan_idx]
    IN  /\ orphan_idx \in 1..Len(all_orphans)
        /\ orphan_idx' = orphan_idx + 1
        /\ pc' = IF orphan_idx' > Len(all_orphans) THEN "return" ELSE "phase4"
        /\ all_orphans' = all_orphans
        /\ error' = error
        /\ IF SpareTeams = {}
           THEN /\ still_unassigned' = Append(still_unassigned, orphan)
                /\ final_teams' = final_teams
           ELSE /\ still_unassigned' = still_unassigned
                /\ \E t \in SpareTeams :
                       /\ final_teams' = [final_teams EXCEPT
                                             ![t].members = Append(@, orphan)]
                       /\ \A u \in 1..Len(final_teams) :
                              u # t => orphan \notin Range(final_teams'[u].members)

EligibleTeams ==
    {k \in 1..Len(call.all_teams) :
        /\ Len(call.all_teams[k].members) < call.max_team_size
        /\ \E m \in Range(call.all_teams[k].members) : is_leader(m)}
\* the ranking key of the team named k for the profile of the call
FitOf(k) ==
    LET fit == calculate_member_team_fit(call.member_profile.profile_data,
                   get_leaders(call.all_teams[k]))
    IN  [tz_score |-> fit.tz_score, cat_score |-> fit.cat_score,
         size |-> Len(call.all_teams[k].members)]
RankedAsClaimed ==
    call.fn = "find_best_teams_for_member" =>
        \A c \in 1..Len(returns) :
            LET r == returns[c]
            IN  /\ {r[i].team_name : i \in 1..Len(r)} = EligibleTeams
                /\ Len(r) = Cardinality(EligibleTeams)
                /\ \A i \in 1..Len(r) : \A j \in (i + 1)..Len(r) :
                       ~Tier2Greater(FitOf(r[j].team_name), FitOf(r[i].team_name))
                /\ r = returns[1]

TzCompatibilityBounds ==
    (call.fn = "calculate_compatibility" /\ returns # <<>>) =>
        LET x == call.tz_offset1
            y == call.tz_offset2
            r == returns[1]
        IN  IF x = <<>> \/ y = <<>> THEN r.n = 0
            ELSE /\ x = y => FracEQ(r, Frac(1, 1))
                 /\ Abs(x[1] - y[1]) >= 9 * 60 => r.n = 0
                 /\ ~FracGT(Frac(0, 1), r) /\ ~FracGT(r, Frac(1, 1))
                 /\ \A u \in Offsets \ {<<>>} : \A v \in Offsets \ {<<>>} :
                        Abs(u[1] - v[1]) >= Abs(x[1] - y[1]) =>
                            ~FracGT(calculate_compatibility(u, v), r)

\* two offsets four and a half hours apart scored one half
TzCompatibilityBoundsWitness ==
    /\ call.fn = "calculate_compatibility"
    /\ returns # <<>>
    /\ call.tz_offset1 # <<>> /\ call.tz_offset2 # <<>>
    /\ Abs(call.tz_offset1[1] - call.tz_offset2[1]) = 270
    /\ FracEQ(returns[1], Frac(1, 2))

\* ------------------------------------------------- properties: categories
\* C15: the category set returned for a profile is not empty.
CategoriesNonEmpty ==
    (call.fn = "get_member_categories" /\ returns # <<>>) => returns[1] # {}

\* C21: after construction every keyword of the matcher has the specificity
\* score one over the number of categories in its keyword_map entry.
SpecificityIsInverseOfCategories ==
    (call.fn = "CategoryMatcher" /\ returns # <<>>) =>
        \A k \in DOMAIN returns[1].specificity_scores :
            FracEQ(returns[1].specificity_scores[k],
                   Frac(1, Cardinality(returns[1].keyword_map[k])))

\* the domains of a category set
DomainsOf(S) == {cat[1] : cat \in S}

\* C22: the categorical score of two sets is 0 when either is empty and
\* otherwise 0.6 of the shared categories over the smaller set's size plus 0.4
\* of the shared domains over the smaller number of domains; it lies in
\* [0, 1], is the same in both orders, and is 1 when one non-empty set is
\* contained in the other.
CategoricalScore ==
    (call.fn = "_calculate_categorical_score" /\ returns # <<>>) =>
        LET A == call.categories1
            B == call.categories2
            r == returns[1]
        IN  /\ (A = {} \/ B = {}) => r.n = 0
            /\ (A # {} /\ B # {}) =>
                   FracEQ(r, FracAdd(
                       Frac(6 * Cardinality(A \cap B),
                            10 * Min(Cardinality(A), Cardinality(B))),
                       Frac(4 * Cardinality(DomainsOf(A) \cap DomainsOf(B)),
                            10 * Min(Cardinality(DomainsOf(A)),
                                     Cardinality(DomainsOf(B))))))
            /\ r.d > 0 /\ r.n >= 0 /\ r.n <= r.d
            /\ FracEQ(r, returns[2])
            /\ ((A # {} /\ A \subseteq B) \/ (B # {} /\ B \subseteq A)) => r.n = r.d

\* a set of two categories scored 1 against one of its members, asked with the
\* larger set first
CategoricalScoreWitness ==
    /\ call.fn = "_calculate_categorical_score"
    /\ returns # <<>>
    /\ Cardinality(call.categories1) = 2
    /\ Cardinality(call.categories2) = 1
    /\ call.categories2 \subseteq call.categories1
    /\ returns[1].n = returns[1].d

\* C23: the score of a similarity matrix lies in [0, 1]; an empty matrix
\* scores 0.
SimilarityBonusRange ==
    (call.fn = "_apply_similarity_bonuses" /\ returns # <<>>) =>
        /\ returns[1].d > 0
        /\ returns[1].n >= 0
        /\ returns[1].n <= returns[1].d
        /\ call.matrix = <<>> => returns[1].n = 0

\* ------------------------------------------------- properties: manual assignment
\* C26: with every assignment made to a team that was recommended to its
\* flow, no persisted team has more than max_team_size members.
AssignRespectsCapacity ==
    \A d \in db_teams : Cardinality(d.members) <= config_max_team_size

\* C27: when every assignment call has returned success, each assigned member
\* is in the persisted member map of the team it was assigned to, and none
\* that left the unregistered pool is absent from every team.
NoLostAssignment ==
    (\A g \in Flows : apc[g] = "ended" /\ assign_returns[g] = "success") =>
        \A f \in Flows :
            /\ \E d \in db_teams :
                   d.team_number = selected_team_name[f] /\ f \in d.members
            /\ f \notin db_unregistered => \E d \in db_teams : f \in d.members

\* ------------------------------------------------- properties: batch_create_teams
\* the document a confirmation inserted for its proposed team k
InsertedFor(c, k) == {d \in db_teams : d.doc_id = <<c, k>>}

\* C28: when a call has returned, a proposed team it reports as failed has no
\* team document and all its members are unregistered, and a proposed team
\* it counts as created has a team document and none of its members is
\* unregistered.
FailedLeavesNoTrace ==
    \A c \in Confirmations :
        bpc[c] = "returned" =>
            \A k \in 1..Len(proposals[c]) :
                IF k \in Range(failed_teams[c])
                THEN /\ InsertedFor(c, k) = {}
                     /\ Range(proposals[c][k]) \subseteq db_unregistered
                ELSE /\ InsertedFor(c, k) # {}
                     /\ Range(proposals[c][k]) \cap db_unregistered = {}

\* C30: no user_id is a member of two persisted teams.
OneTeamPerUser ==
    \A d \in db_teams : \A e \in db_teams :
        d # e => d.members \cap e.members = {}

\* C6: every call attempts its proposed teams once each, in order, whatever
\* fails, and accounts for each one as created or failed.
BatchIsolatesFailures ==
    \A c \in Confirmations :
        /\ attempts[c] = [k \in 1..Len(attempts[c]) |-> k]
        /\ bpc[c] = "returned" =>
              /\ Len(attempts[c]) = Len(proposals[c])
              /\ created_count[c] + Len(failed_teams[c]) = Len(proposals[c])

\* a call whose first proposed team failed and whose second was created
BatchIsolatesFailuresWitness ==
    \E c \in Confirmations :
        /\ bpc[c] = "returned"
        /\ failed_teams[c] = <<1>>
        /\ created_count[c] = 1

\* C7: no two persisted teams of the guild share a team_number.
UniqueTeamNumbers ==
    \A a \in db_teams : \A b \in db_teams :
        a # b => a.team_number # b.team_number

\* ------------------------------------------------- properties: similarity model
\* C8: the constructor runs at most once; a caller is past _load_model only
\* with the cached model in its instance; every instance that holds a model
\* holds the cached one; while a load is in flight no other caller is inside
\* the lock.
SingleInitialisation ==
    /\ constructs <= 1
    /\ \A c \in Callers :
           lpc[c] = "execute" =>
               /\ model_cache # <<>> /\ ~IsException(model_cache)
               /\ self_model[instance_of[c]] = model_cache
    /\ \A i \in Instances : self_model[i] # <<>> => self_model[i] = model_cache
    /\ \A c \in Callers : \A d \in Callers :
           (c # d /\ lpc[c] \in {"locked", "loading", "loaded"})
               => lpc[d] \notin {"locked", "loading", "loaded"}

\* two callers on two instances both got a result from one construction
SingleInitialisationWitness ==
    /\ constructs = 1
    /\ \E c \in Callers : \E d \in Callers :
           /\ instance_of[c] # instance_of[d]
           /\ "ok" \in Range(outcomes[c])
           /\ "ok" \in Range(outcomes[d])

\* C9: once a compare() call has raised, the constructor has run exactly once,
\* no call has returned or is about to return a result, and no load is in
\* flight.
FailureIsCached ==
    (\E c \in Callers : "raised" \in Range(outcomes[c])) =>
        /\ constructs = 1
        /\ \A c \in Callers :
               /\ "ok" \notin Range(outcomes[c])
               /\ lpc[c] \notin {"loading", "execute"}

\* the first load failed, a waiter raised, and a later call raised as well
FailureIsCachedWitness ==
    /\ IsException(model_cache)
    /\ \E c \in Callers : \E d \in Callers :
           /\ c # d
           /\ outcomes[c] = <<"raised", "raised">>
           /\ outcomes[d] # <<>>

====
